---- MODULE Spec2Model ----
(***************************************************************************)
(* Model of the excel-to-png redaction pipeline (yifeng260688/datald).     *)
(*                                                                         *)
(* Four variants of the program are modelled, selected by `variant`:       *)
(*   "server" src/server/pipeline/excel_to_png.py (one file per run)       *)
(*   "move"   src/attached_assets/excel_to_png_-_Copy_1765457731041.py     *)
(*   "copy"   src/attached_assets/excel_to_png_1765449741211.py            *)
(*   "old"    src/attached_assets/excel_to_png_1761633350424.py            *)
(* The three attached_assets variants are batch drivers looping over the   *)
(* files of EXCEL_DIR.                                                     *)
(*                                                                         *)
(* A page artifact (markup file) is the tuple <<file, page, gen, leaks>>:  *)
(* its path is determined by (file, page); gen is the generation pass that *)
(* wrote it and leaks is the number of matches the auditor's patterns find *)
(* in its text.  An image is <<page, gen>>, gen being the pass of the       *)
(* artifact it was rendered from; `images` is the output directory of the  *)
(* file being processed (IMAGE_DIR/<file_name>), which no other file's run *)
(* touches.                                                                *)
(***************************************************************************)
EXTENDS Integers, Sequences, FiniteSets, TLC

\* ---- program constants -------------------------------------------------
MAX_LEAK_TOLERANCE == 5

\* ---- bounds of the model -----------------------------------------------
NFiles == 2          \* files listed in EXCEL_DIR
MaxPages == 6        \* pages generated for one file (over all its sheets)
MaxPageLeaks == 3    \* a page's markup holds 0 or MaxPageLeaks pattern matches

Files == 1..NFiles
Variants == {"server", "move", "copy", "old"}
Gated == {"server", "move", "copy"}

VARIABLES
    variant,        \* which source file is running
    pc,             \* position of the driver / of the current file's run
    idx,            \* index of the current file in excel_files
    all_sheets,     \* per page of the current file: matches in its markup
    all_html_files, \* the page list held by the current run
    total_leaks,    \* the run's total_leaks local
    should_retry,   \* the run's should_retry local
    unreadable,     \* pages whose artifact read failed in the latest audit
    html_dir,       \* markup files on disk
    images,         \* image files in the current file's output directory
    excel_dir,      \* source files present at their original location
    data_check,     \* names present in the quarantine area
    result,         \* how the current file's run ended ("none": running)
    k,              \* render loop position (pages rendered so far)
    passes,         \* generation passes started by the current run
    audits,         \* audit passes made by the current run
    first_unreadable, \* read failures of the first audit, until the re-audit
    same_reads,     \* the re-audit's reads failed exactly where the first's did
    same_total,     \* the re-audit's total equals the first audit's total
    fn,             \* the function a single-call specification exercises
    value,          \* its text argument (a cell value, or a rendered text)
    file_name,      \* the file identifier handed to the auditor
    df,             \* its sheet argument (a sequence of rows of cells)
    ret,            \* what the call returned
    called,         \* the call has been made
    runs            \* concurrent runs sharing one output directory

vars == <<variant, pc, idx, all_sheets, all_html_files, total_leaks,
          should_retry, unreadable, html_dir, images, excel_dir, data_check,
          result, k, passes, audits, first_unreadable, same_reads,
          same_total, fn, value, file_name, df, ret, called, runs>>

\* the variables of the single-call specifications
call_vars == <<fn, value, file_name, df, ret, called, runs>>

\* ---- helpers -----------------------------------------------------------
\* main: the server variant handles sys.argv[1] only, the others os.listdir
BatchLen(v) == IF v = "server" THEN 1 ELSE NFiles

Range(s) == {s[i] : i \in 1..Len(s)}

\* the artifacts of file f
HtmlOf(dir, f) == {e \in dir : e[1] = f}

\* variant of WriteHtml: the second pass renders other text than the first
WriteHtmlMut(dir, f, p, g, c) ==
    {e \in dir : ~(e[1] = f /\ e[2] = p)}
        \cup {<<f, p, g, IF g = 2 THEN 0 ELSE c>>}

\* open(page_html_path, 'w').write(...): the path holds the new text
WriteHtml(dir, f, p, g, c) ==
    {e \in dir : ~(e[1] = f /\ e[2] = p)} \cup {<<f, p, g, c>>}

RECURSIVE WritePages(_, _, _, _, _)
\* generate_html_for_sheet's page loop, pages 1..n of file f in pass g
WritePages(dir, f, sheets, n, g) ==
    IF n = 0 THEN dir
    ELSE WriteHtml(WritePages(dir, f, sheets, n - 1, g), f, n, g, sheets[n])

\* variant of cleanup_htmls: returns after removing the first listed path
cleanup_htmlsMut(dir, f, html_list) ==
    IF html_list = <<>> THEN dir
    ELSE {e \in dir : ~(e[1] = f /\ e[2] = Head(html_list))}

\* cleanup_htmls: remove every listed path that exists
cleanup_htmls(dir, f, html_list) ==
    {e \in dir : ~(e[1] = f /\ e[2] \in Range(html_list))}

\* variant of check_html_leakage_count: a failed read counts as 2
check_html_leakage_countMut(readable, content) ==
    IF readable THEN content ELSE 2

\* check_html_leakage_count: the matches in the text, or 1 when reading fails
check_html_leakage_count(readable, content) ==
    IF readable THEN content ELSE 1

\* os.path.exists of the path of page p of file f
Exists(dir, f, p) == \E e \in dir : e[1] = f /\ e[2] = p

\* the text found at the path of page p of file f
Content(dir, f, p) ==
    LET es == {e \in dir : e[1] = f /\ e[2] = p}
    IN  IF es = {} THEN 0 ELSE (CHOOSE e \in es : TRUE)[4]

RECURSIVE AuditLoop(_, _, _, _)
\* for _, html_path, _ in all_html_files: total_leaks += count
AuditLoop(dir, f, html_list, unread) ==
    IF html_list = <<>> THEN 0
    ELSE LET p == Head(html_list)
         IN  check_html_leakage_count(p \notin unread /\ Exists(dir, f, p),
                                      Content(dir, f, p))
             + AuditLoop(dir, f, Tail(html_list), unread)

\* variant of ShouldRetry: retries at the tolerance itself
ShouldRetryMut(t) == t >= MAX_LEAK_TOLERANCE

\* if total_leaks > MAX_LEAK_TOLERANCE: should_retry = True
ShouldRetry(t) == t > MAX_LEAK_TOLERANCE

\* variant of SecurityCheckFailed: off by one above the tolerance
SecurityCheckFailedMut(t) == t > MAX_LEAK_TOLERANCE + 1

\* if total_leaks > MAX_LEAK_TOLERANCE: (the final decision)
SecurityCheckFailed(t) == t > MAX_LEAK_TOLERANCE

PageList(n) == [i \in 1..n |-> i]

ResetLocals ==
    /\ all_sheets' = <<>>
    /\ all_html_files' = <<>>
    /\ total_leaks' = 0
    /\ should_retry' = FALSE
    /\ unreadable' = {}
    /\ k' = 0
    /\ passes' = 0
    /\ audits' = 0
    /\ first_unreadable' = {}
    /\ same_reads' = FALSE
    /\ same_total' = FALSE

Init ==
    /\ variant \in Variants
    /\ pc = "main"
    /\ idx = 1
    /\ all_sheets = <<>>
    /\ all_html_files = <<>>
    /\ total_leaks = 0
    /\ should_retry = FALSE
    /\ unreadable = {}
    /\ html_dir = {}
    /\ images = {}
    /\ excel_dir = Files
    /\ data_check \in SUBSET Files
    /\ (variant \in {"server", "old"} => data_check = {})
    /\ result = "none"
    /\ k = 0
    /\ passes = 0
    /\ audits = 0
    /\ first_unreadable = {}
    /\ same_reads = FALSE
    /\ same_total = FALSE
    /\ fn = "pipeline"
    /\ value = <<>>
    /\ file_name = <<>>
    /\ df = <<>>
    /\ ret = <<>>
    /\ called = FALSE
    /\ runs = <<>>

CurFile == idx

\* the page contents a source file can produce: n pages, the first m of them
\* holding MaxPageLeaks matches each (a total is a sum over the pages, so the
\* order of the pages does not change it)
Contents ==
    UNION {{[i \in 1..n |-> IF i <= m THEN MaxPageLeaks ELSE 0] : m \in 0..n}
           : n \in 0..MaxPages}

\* the sets of pages whose artifact the auditor may fail to read in one pass:
\* none, or any run of consecutive pages of the list
ReadFailures(html_list) ==
    {a..b : a \in 1..(Len(html_list) + 1), b \in 0..Len(html_list)}

\* an exception leaves the function: nothing in the variants' main catches it
Crash(dir) ==
    /\ html_dir' = dir
    /\ result' = "crashed"
    /\ pc' = "aborted"

\* for filename in excel_files: process...(excel_path, ...)
StartFile ==
    /\ pc = "main"
    /\ idx <= BatchLen(variant)
    /\ pc' = "read"
    /\ UNCHANGED <<variant, idx, all_sheets, all_html_files, total_leaks,
                   should_retry, unreadable, html_dir, images, excel_dir,
                   data_check, result, k, passes, audits,
                   first_unreadable, same_reads,
                   same_total>>
    /\ UNCHANGED call_vars

\* pd.read_excel(excel_path, sheet_name=None, header=None)
ReadExcel ==
    /\ pc = "read"
    /\ \/ \E c \in Contents :
            /\ all_sheets' = c
            /\ pc' = IF variant = "old" THEN "old_sheet" ELSE "gen"
            /\ UNCHANGED result
       \/ /\ result' = "read_error"
          /\ pc' = "returned"
          /\ UNCHANGED all_sheets
    /\ UNCHANGED <<variant, idx, all_html_files, total_leaks, should_retry,
                   unreadable, html_dir, images, excel_dir, data_check, k,
                   passes, audits, first_unreadable, same_reads,
                   same_total>>
    /\ UNCHANGED call_vars

\* generate_all_htmls(): every page of every sheet, or an exception at page j
GenerateAllBody(g, next) ==
    LET n == Len(all_sheets) IN
    /\ passes' = g
    /\ \/ /\ html_dir' = WritePages(html_dir, CurFile, all_sheets, n, g)
          /\ all_html_files' = PageList(n)
          /\ IF n = 0
             THEN /\ result' = "empty"
                  /\ pc' = "returned"
             ELSE /\ pc' = next
                  /\ UNCHANGED result
       \/ /\ \E j \in 1..n :
               Crash(WritePages(html_dir, CurFile, all_sheets, j - 1, g))
          /\ UNCHANGED all_html_files

\* Step 1: all_html_files = generate_all_htmls(); if not all_html_files: return
GenerateAll ==
    /\ pc = "gen"
    /\ GenerateAllBody(1, "audit")
    /\ UNCHANGED <<variant, idx, all_sheets, total_leaks, should_retry,
                   unreadable, images, excel_dir, data_check, k, audits,
                   first_unreadable, same_reads,
                   same_total>>
    /\ UNCHANGED call_vars

\* Step 2: the first audit loop and the should_retry decision
Audit ==
    /\ pc = "audit"
    /\ \E unread \in ReadFailures(all_html_files) :
         LET t == AuditLoop(html_dir, CurFile, all_html_files, unread) IN
         /\ total_leaks' = t
         /\ unreadable' = unread
         /\ first_unreadable' = unread
         /\ should_retry' = ShouldRetry(t)
         /\ pc' = IF ShouldRetry(t) THEN "retry" ELSE "decide"
    /\ audits' = 1
    /\ UNCHANGED <<variant, idx, all_sheets, all_html_files, html_dir, images,
                   excel_dir, data_check, result, k, passes, same_reads,
                   same_total>>
    /\ UNCHANGED call_vars

\* if should_retry: cleanup_htmls(all_html_files)
RetryCleanup ==
    /\ pc = "retry"
    /\ should_retry
    /\ html_dir' = cleanup_htmls(html_dir, CurFile, all_html_files)
    /\ pc' = "regen"
    /\ UNCHANGED <<variant, idx, all_sheets, all_html_files, total_leaks,
                   should_retry, unreadable, images, excel_dir, data_check,
                   result, k, passes, audits, first_unreadable,
                   same_reads,
                   same_total>>
    /\ UNCHANGED call_vars

\* all_html_files = generate_all_htmls()   (the retry)
Regenerate ==
    /\ pc = "regen"
    /\ GenerateAllBody(2, "reaudit")
    /\ UNCHANGED <<variant, idx, all_sheets, total_leaks, should_retry,
                   unreadable, images, excel_dir, data_check, k, audits,
                   first_unreadable, same_reads,
                   same_total>>
    /\ UNCHANGED call_vars

\* variant of ReAudit: total_leaks is not reset before the second loop
ReAuditAccumulates ==
    /\ pc = "reaudit"
    /\ \E unread \in ReadFailures(all_html_files) :
         /\ total_leaks' = total_leaks
                            + AuditLoop(html_dir, CurFile, all_html_files, unread)
         /\ unreadable' = unread
         /\ same_reads' = (unread = first_unreadable)
         /\ same_total' = (total_leaks' = total_leaks)
    /\ first_unreadable' = {}
    /\ audits' = 2
    /\ pc' = "decide"
    /\ UNCHANGED <<variant, idx, all_sheets, all_html_files, should_retry,
                   html_dir, images, excel_dir, data_check, result, k, passes>>
    /\ UNCHANGED call_vars

\* total_leaks = 0; for ... in all_html_files: total_leaks += count
ReAudit ==
    /\ pc = "reaudit"
    /\ \E unread \in ReadFailures(all_html_files) :
         /\ total_leaks' = 0 + AuditLoop(html_dir, CurFile, all_html_files, unread)
         /\ unreadable' = unread
         /\ same_reads' = (unread = first_unreadable)
         /\ same_total' = (total_leaks' = total_leaks)
    /\ first_unreadable' = {}
    /\ audits' = 2
    /\ pc' = "decide"
    /\ UNCHANGED <<variant, idx, all_sheets, all_html_files, should_retry,
                   html_dir, images, excel_dir, data_check, result, k, passes>>
    /\ UNCHANGED call_vars

\* the generation pass of the text found at the path of page p of file f
GenOf(dir, f, p) ==
    LET es == {e \in dir : e[1] = f /\ e[2] = p}
    IN  IF es = {} THEN 0 ELSE (CHOOSE e \in es : TRUE)[3]

\* the quarantine deposit of the "move" variant: shutil.move, or os.remove of
\* the original when the name is already present; an OSError is caught
QuarantineMove ==
    \/ /\ CurFile \notin data_check
       /\ \/ /\ excel_dir' = excel_dir \ {CurFile}
             /\ data_check' = data_check \cup {CurFile}
          \/ UNCHANGED <<excel_dir, data_check>>
    \/ /\ CurFile \in data_check
       /\ \/ excel_dir' = excel_dir \ {CurFile}
          \/ UNCHANGED excel_dir
       /\ UNCHANGED data_check

\* the quarantine deposit of the "copy" variant, when it does not raise:
\* shutil.copy2 unless the name is already present
QuarantineCopy ==
    /\ data_check' = data_check \cup {CurFile}
    /\ UNCHANGED excel_dir

\* if total_leaks > MAX_LEAK_TOLERANCE: ... cleanup_htmls(all_html_files); return
Quarantine ==
    /\ pc = "decide"
    /\ SecurityCheckFailed(total_leaks)
    /\ \/ /\ variant = "server"
          /\ UNCHANGED <<excel_dir, data_check>>
       \/ /\ variant = "move"
          /\ QuarantineMove
       \/ /\ variant = "copy"
          /\ QuarantineCopy
    /\ html_dir' = cleanup_htmls(html_dir, CurFile, all_html_files)
    /\ result' = "quarantined"
    /\ pc' = "returned"
    /\ UNCHANGED <<variant, idx, all_sheets, all_html_files, total_leaks,
                   should_retry, unreadable, images, k, passes, audits,
                   first_unreadable, same_reads,
                   same_total>>
    /\ UNCHANGED call_vars

\* the "copy" variant's shutil.copy2 raises: no handler, the driver dies
QuarantineCopyRaises ==
    /\ pc = "decide"
    /\ SecurityCheckFailed(total_leaks)
    /\ variant = "copy"
    /\ CurFile \notin data_check
    /\ Crash(html_dir)
    /\ UNCHANGED <<variant, idx, all_sheets, all_html_files, total_leaks,
                   should_retry, unreadable, images, excel_dir, data_check, k,
                   passes, audits, first_unreadable, same_reads,
                   same_total>>
    /\ UNCHANGED call_vars

\* Step 3: create_images_from_list(all_html_files, ...) is called
Accept ==
    /\ pc = "decide"
    /\ ~SecurityCheckFailed(total_leaks)
    /\ pc' = "launch"
    /\ k' = 0
    /\ UNCHANGED <<variant, idx, all_sheets, all_html_files, total_leaks,
                   should_retry, unreadable, html_dir, images, excel_dir,
                   data_check, result, passes, audits,
                   first_unreadable, same_reads,
                   same_total>>
    /\ UNCHANGED call_vars

\* the handler of a rendering exception: cleanup_htmls(all_html_files) and a
\* failure result (server: except; move: return False; copy: except/finally)
RenderFailed ==
    /\ html_dir' = cleanup_htmls(html_dir, CurFile, all_html_files)
    /\ result' = "render_failed"
    /\ pc' = "returned"
    /\ UNCHANGED images

\* p.chromium.launch(...), browser.new_page()
LaunchBrowser ==
    /\ pc = "launch"
    /\ \/ /\ pc' = "render"
          /\ UNCHANGED <<html_dir, images, result>>
       \/ RenderFailed
    /\ UNCHANGED <<variant, idx, all_sheets, all_html_files, total_leaks,
                   should_retry, unreadable, excel_dir, data_check, k, passes,
                   audits, first_unreadable, same_reads,
                   same_total>>
    /\ UNCHANGED call_vars

\* one iteration of "for type_label, html_path, sheet_name in html_list"
RenderPage ==
    /\ pc = "render"
    /\ k < Len(all_html_files)
    /\ \/ /\ images' = {e \in images : e[1] # all_html_files[k + 1]}
                       \cup {<<all_html_files[k + 1],
                               GenOf(html_dir, CurFile, all_html_files[k + 1])>>}
          /\ k' = k + 1
          /\ UNCHANGED <<pc, html_dir, result>>
       \/ /\ RenderFailed
          /\ UNCHANGED k
    /\ UNCHANGED <<variant, idx, all_sheets, all_html_files, total_leaks,
                   should_retry, unreadable, excel_dir, data_check, passes,
                   audits, first_unreadable, same_reads,
                   same_total>>
    /\ UNCHANGED call_vars

\* variant of FinishRender: the success result without the cleanup
FinishRenderMut ==
    /\ pc = "render"
    /\ k = Len(all_html_files)
    /\ html_dir' = html_dir
    /\ result' = "accepted"
    /\ pc' = "returned"
    /\ UNCHANGED <<variant, idx, all_sheets, all_html_files, total_leaks,
                   should_retry, unreadable, images, excel_dir, data_check, k,
                   passes, audits, first_unreadable, same_reads,
                   same_total>>
    /\ UNCHANGED call_vars

\* browser.close(); cleanup_htmls(all_html_files); the server variant also
\* removes temp_html; the success result
FinishRender ==
    /\ pc = "render"
    /\ k = Len(all_html_files)
    /\ html_dir' = IF variant = "server" THEN {}
                   ELSE cleanup_htmls(html_dir, CurFile, all_html_files)
    /\ result' = "accepted"
    /\ pc' = "returned"
    /\ UNCHANGED <<variant, idx, all_sheets, all_html_files, total_leaks,
                   should_retry, unreadable, images, excel_dir, data_check, k,
                   passes, audits, first_unreadable, same_reads,
                   same_total>>
    /\ UNCHANGED call_vars

\* process_sheet of the "old" variant: one markup file written, rendered and
\* removed per step (page 0 is the cover); any exception leaves the function
OldRenderPage ==
    /\ pc = "old_sheet"
    /\ Len(all_sheets) > 0
    /\ k <= Len(all_sheets)
    /\ \/ /\ images' = images \cup {<<k, 1>>}
          /\ k' = k + 1
          /\ UNCHANGED <<pc, html_dir, result>>
       \/ /\ Crash(WriteHtml(html_dir, CurFile, k, 1, 0))
          /\ UNCHANGED <<images, k>>
       \/ /\ Crash(html_dir)
          /\ UNCHANGED <<images, k>>
    /\ UNCHANGED <<variant, idx, all_sheets, all_html_files, total_leaks,
                   should_retry, unreadable, excel_dir, data_check, passes,
                   audits, first_unreadable, same_reads,
                   same_total>>
    /\ UNCHANGED call_vars

\* process_excel_file of the "old" variant returns
OldDone ==
    /\ pc = "old_sheet"
    /\ (Len(all_sheets) = 0 \/ k = Len(all_sheets) + 1)
    /\ result' = IF Len(all_sheets) = 0 THEN "empty" ELSE "accepted"
    /\ pc' = "returned"
    /\ UNCHANGED <<variant, idx, all_sheets, all_html_files, total_leaks,
                   should_retry, unreadable, html_dir, images, excel_dir,
                   data_check, k, passes, audits,
                   first_unreadable, same_reads,
                   same_total>>
    /\ UNCHANGED call_vars

\* variant of Return: the driver removes a source file once it is processed
ReturnMut ==
    /\ pc = "returned"
    /\ ResetLocals
    /\ idx' = idx + 1
    /\ pc' = "main"
    /\ images' = {}
    /\ result' = "none"
    /\ excel_dir' = IF result = "accepted" THEN excel_dir \ {CurFile} ELSE excel_dir
    /\ UNCHANGED <<variant, html_dir, data_check>>
    /\ UNCHANGED call_vars

\* the run's function returns to main: its locals are gone, and the loop
\* turns to the next file and its (new) output directory
Return ==
    /\ pc = "returned"
    /\ ResetLocals
    /\ idx' = idx + 1
    /\ pc' = "main"
    /\ images' = {}
    /\ result' = "none"
    /\ UNCHANGED <<variant, html_dir, excel_dir, data_check>>
    /\ UNCHANGED call_vars

\* after the loop: the batch drivers remove HTML_DIR
BatchEnd ==
    /\ pc = "main"
    /\ idx > BatchLen(variant)
    /\ html_dir' = IF variant = "server" THEN html_dir ELSE {}
    /\ pc' = "batch_done"
    /\ UNCHANGED <<variant, idx, all_sheets, all_html_files, total_leaks,
                   should_retry, unreadable, images, excel_dir, data_check,
                   result, k, passes, audits, first_unreadable,
                   same_reads,
                   same_total>>
    /\ UNCHANGED call_vars

Next ==
    \/ StartFile
    \/ ReadExcel
    \/ GenerateAll
    \/ Audit
    \/ RetryCleanup
    \/ Regenerate
    \/ ReAudit
    \/ Quarantine
    \/ QuarantineCopyRaises
    \/ Accept
    \/ LaunchBrowser
    \/ RenderPage
    \/ FinishRender
    \/ OldRenderPage
    \/ OldDone
    \/ Return
    \/ BatchEnd

Spec == Init /\ [][Next]_vars

\* ---- properties --------------------------------------------------------
Retrying == {"retry", "regen", "reaudit"}
Rendering == {"launch", "render"}

\* the artifacts one complete generation pass g leaves for the current file
FullPass(g) ==
    {<<CurFile, p, g, all_sheets[p]>> : p \in 1..Len(all_sheets)}

RECURSIVE SumReadable(_, _, _)
\* the matches held by the readable pages among pages 1..n
SumReadable(sheets, unread, n) ==
    IF n = 0 THEN 0
    ELSE (IF n \in unread THEN 0 ELSE sheets[n]) + SumReadable(sheets, unread, n - 1)

\* C1: the renderer is invoked (and images exist) only while the most recent
\* audit total over all pages of the file is within MAX_LEAK_TOLERANCE, and
\* after at most one regeneration (at most two generation passes).
C1_RenderOnlyWithinTolerance ==
    (variant \in Gated /\ (pc \in Rendering \/ images # {})) =>
        /\ audits \in {1, 2}
        /\ passes = audits
        /\ total_leaks <= MAX_LEAK_TOLERANCE
        /\ total_leaks = SumReadable(all_sheets, unreadable, Len(all_sheets))
                         + Cardinality(unreadable)

C1_Witness ==
    /\ variant = "server"
    /\ pc = "render"
    /\ k > 0
    /\ passes = 2
    /\ total_leaks = MAX_LEAK_TOLERANCE

\* C2: when the total still exceeds the tolerance after the retry, the run
\* (server and move variants) ends quarantined, the renderer was never
\* invoked, no image exists and no page artifact of the file is left.
C2_QuarantineLeavesNothing ==
    (variant \in {"server", "move"} /\ audits = 2
       /\ total_leaks > MAX_LEAK_TOLERANCE) =>
        /\ pc \in {"decide", "returned"}
        /\ images = {}
        /\ k = 0
        /\ (pc = "returned" =>
              /\ result = "quarantined"
              /\ HtmlOf(html_dir, CurFile) = {})

C2_Witness ==
    /\ variant = "move"
    /\ pc = "returned"
    /\ result = "quarantined"
    /\ passes = 2
    /\ Len(all_html_files) > 1

\* C3: after the first audit, a total T <= MAX_LEAK_TOLERANCE (0, or nonzero
\* up to and including the tolerance) goes to the renderer with no
\* regeneration and the first-pass artifacts unchanged; a total above the
\* tolerance (from MAX_LEAK_TOLERANCE + 1 on) is in the retry.
C3_GateBoundary ==
    (variant \in Gated /\ audits = 1) =>
        IF total_leaks <= MAX_LEAK_TOLERANCE
        THEN /\ pc \in {"decide", "launch", "render", "returned"}
             /\ passes = 1
             /\ ~should_retry
             /\ result \in {"none", "accepted", "render_failed"}
             /\ (pc \in {"decide", "launch", "render"} =>
                   HtmlOf(html_dir, CurFile) = FullPass(1))
             /\ \A e \in images : e[2] = 1
        ELSE /\ pc \in Retrying \cup {"aborted"}
             /\ should_retry
             /\ images = {}

C3_Witness ==
    /\ variant \in Gated
    /\ audits = 1
    /\ total_leaks = MAX_LEAK_TOLERANCE
    /\ pc = "render"
    /\ k = Len(all_html_files)

\* C4: the retry is wholesale and happens once: before regeneration no
\* artifact of the file is left, the re-audit sees every page regenerated in
\* pass 2, the decision after it uses the re-audit's total alone, and after
\* the second audit the run is never in the retry again.
C4_RetryOnceWholesale ==
    variant \in Gated =>
        /\ passes <= 2
        /\ audits <= 2
        /\ (pc = "regen" => HtmlOf(html_dir, CurFile) = {})
        /\ (pc = "reaudit" =>
              /\ HtmlOf(html_dir, CurFile) = FullPass(2)
              /\ all_html_files = PageList(Len(all_sheets)))
        /\ (passes = 2 => should_retry)
        /\ (audits = 2 =>
              /\ pc \notin Retrying
              /\ passes = 2
              /\ total_leaks = SumReadable(all_sheets, unreadable, Len(all_sheets))
                               + Cardinality(unreadable))

C4_Witness ==
    /\ variant \in Gated
    /\ pc = "decide"
    /\ audits = 2
    /\ total_leaks > 0
    /\ total_leaks <= MAX_LEAK_TOLERANCE

\* C5: whenever a file ends quarantined, a file with its name is present in
\* the quarantine area (every variant that has the gate).
C5_QuarantinedIsDeposited ==
    (variant \in Gated /\ result = "quarantined") => CurFile \in data_check

\* C6: when the quarantine area already holds the name, the quarantine action
\* changes neither the quarantine area nor the original source file and
\* raises no error.
C6_RedepositIsNoOp ==
    [][(/\ variant \in {"move", "copy"}
        /\ pc = "decide"
        /\ total_leaks > MAX_LEAK_TOLERANCE
        /\ CurFile \in data_check)
       => (/\ excel_dir' = excel_dir
           /\ data_check' = data_check
           /\ pc' # "aborted")]_vars

C8_UnreadableCountsOne ==
    /\ [](pc \in {"retry", "decide"} =>
            /\ total_leaks = SumReadable(all_sheets, unreadable, Len(all_sheets))
                             + Cardinality(unreadable)
            /\ (/\ SumReadable(all_sheets, unreadable, Len(all_sheets)) = 0
                /\ total_leaks > MAX_LEAK_TOLERANCE)
               => Cardinality(unreadable) > MAX_LEAK_TOLERANCE)
    /\ [][(pc \in {"audit", "reaudit"} => pc' \in {"retry", "decide"})]_vars

C8_Witness ==
    /\ pc = "retry"
    /\ SumReadable(all_sheets, unreadable, Len(all_sheets)) = 0
    /\ Cardinality(unreadable) = MAX_LEAK_TOLERANCE + 1
    /\ total_leaks = MAX_LEAK_TOLERANCE + 1

\* C9: when rendering fails after the gate accepted, the run ends with no
\* page artifact and no image of the file left, the source file in place and
\* no quarantine deposit.
C9_RenderFailureCleansAll ==
    (variant = "server" /\ result = "render_failed") =>
        /\ HtmlOf(html_dir, CurFile) = {}
        /\ images = {}
        /\ CurFile \in excel_dir
        /\ CurFile \notin data_check

\* C10: in the batch drivers a failure while processing one file never stops
\* the batch before the files listed after it are processed.
C10_BatchNeverAborts ==
    (variant \in {"move", "copy", "old"} /\ pc = "aborted") =>
        idx = BatchLen(variant)

\* the "success" field of the dictionary process_excel_file returns in the
\* server variant is False; the batch variants return nothing and go on
ReportsFailure(v, r) ==
    v = "server" /\ r \in {"read_error", "empty", "quarantined", "render_failed"}

\* C11: a file that yields zero pages ends its run with no failure reported
\* and with no audit, retry, rendering or quarantine action.
C11_EmptyIsNoError ==
    result = "empty" =>
        /\ ~ReportsFailure(variant, result)
        /\ audits = 0
        /\ passes <= 1
        /\ k = 0
        /\ images = {}
        /\ CurFile \in excel_dir

\* ---- texts -------------------------------------------------------------
\* A text is a sequence of one-character strings.
LowerSeq == <<"a", "b", "c", "d", "e", "f", "g", "h", "i", "j", "k", "l", "m", "n", "o", "p", "q", "r", "s", "t", "u", "v", "w", "x", "y", "z">>
UpperSeq == <<"A", "B", "C", "D", "E", "F", "G", "H", "I", "J", "K", "L", "M", "N", "O", "P", "Q", "R", "S", "T", "U", "V", "W", "X", "Y", "Z">>
Digits == {"0", "1", "2", "3", "4", "5", "6", "7", "8", "9"}
AsciiLetters == Range(LowerSeq) \cup Range(UpperSeq)

\* a missing cell (pandas NaN); str() of it is "nan"
NaN == <<"NaN">>

\* str(value)
Str(v) == IF v = NaN THEN <<"n", "a", "n">> ELSE v

\* one character of str.lower()
UpperLetters == Range(UpperSeq)

ToLower(c) ==
    IF c \in UpperLetters
    THEN LowerSeq[CHOOSE i \in 1..Len(UpperSeq) : UpperSeq[i] = c]
    ELSE IF c = "Ế" THEN "ế" ELSE c

\* str.lower()
Lower(t) == [i \in 1..Len(t) |-> ToLower(t[i])]

\* \w, \s and \d of the re module
WordChars == AsciiLetters \cup Digits \cup {"_", "ế", "Ế"}
SpaceChars == {" ", "\t", "\n"}
IsWord(c) == c \in WordChars
IsSpace(c) == c \in SpaceChars
IsDigit(c) == c \in Digits

\* [a-zA-Z0-9._%+-] and [a-zA-Z0-9.-] of the email patterns
UserChars == AsciiLetters \cup Digits \cup {".", "_", "%", "+", "-"}
DomainChars == AsciiLetters \cup Digits \cup {".", "-"}

\* '*' * n
Stars(n) == [i \in 1..n |-> "*"]

\* the slice t[i:j] (positions i..j-1, 1-based)
Slice(t, i, j) == SubSeq(t, i, j - 1)

RECURSIVE LStrip(_)
LStrip(t) == IF t # <<>> /\ IsSpace(Head(t)) THEN LStrip(Tail(t)) ELSE t

RECURSIVE RStrip(_)
RStrip(t) ==
    IF t # <<>> /\ IsSpace(t[Len(t)]) THEN RStrip(SubSeq(t, 1, Len(t) - 1)) ELSE t

\* str.strip()
Strip(t) == RStrip(LStrip(t))

\* pat occurs in t at position i, compared case-insensitively or exactly
HasAt(t, i, pat, ignorecase) ==
    /\ i >= 1
    /\ i + Len(pat) - 1 <= Len(t)
    /\ \A j \in 1..Len(pat) :
         IF ignorecase THEN ToLower(t[i + j - 1]) = ToLower(pat[j])
         ELSE t[i + j - 1] = pat[j]

\* pat in t
Contains(t, pat) == \E i \in 1..(Len(t) + 1) : HasAt(t, i, pat, FALSE)

\* \b at position i: between t[i-1] and t[i]
WordBoundary(t, i) ==
    (i - 1 >= 1 /\ IsWord(t[i - 1])) # (i <= Len(t) /\ IsWord(t[i]))

RECURSIVE RunEnd(_, _, _)
\* the first position >= i whose character is not in class cs (Len+1 if none)
RunEnd(t, i, cs) ==
    IF i <= Len(t) /\ t[i] \in cs THEN RunEnd(t, i + 1, cs) ELSE i

RECURSIVE NonSpaceEnd(_, _)
\* the first position >= i holding whitespace (Len+1 if none): the reach of \S+
NonSpaceEnd(t, i) ==
    IF i <= Len(t) /\ ~IsSpace(t[i]) THEN NonSpaceEnd(t, i + 1) ELSE i

Max(S) == CHOOSE x \in S : \A y \in S : y <= x


\* ---- pure functions, called on their own ---------------------------------
pipeline_vars == <<variant, pc, idx, all_sheets, all_html_files, total_leaks,
                   should_retry, unreadable, html_dir, images, excel_dir,
                   data_check, result, k, passes, audits, first_unreadable,
                   same_reads, same_total, runs>>

\* no batch is running: the pipeline's variables as the server starts with
NoPipeline ==
    /\ variant = "server"
    /\ pc = "main"
    /\ idx = 1
    /\ all_sheets = <<>>
    /\ all_html_files = <<>>
    /\ total_leaks = 0
    /\ should_retry = FALSE
    /\ unreadable = {}
    /\ html_dir = {}
    /\ images = {}
    /\ excel_dir = Files
    /\ data_check = {}
    /\ result = "none"
    /\ k = 0
    /\ passes = 0
    /\ audits = 0
    /\ first_unreadable = {}
    /\ same_reads = FALSE
    /\ same_total = FALSE
    /\ runs = <<>>

RECURSIVE TextsOf(_, _)
\* the texts made of at most n fragments of the list frags
TextsOf(frags, n) ==
    IF n = 0 THEN {<<>>}
    ELSE LET S == TextsOf(frags, n - 1)
         IN  S \cup {s \o frags[j] : s \in S, j \in 1..Len(frags)}

\* ---- check_html_leakage_count on a page's text --------------------------
MIN_LEAK_DIGITS == 7

\* where a match of an email pattern that starts at i ends (the position after
\* its last character), 0 if none starts there; first is the class of the
\* pattern's first character
EmailMatchEnd(t, i, first) ==
    IF ~(i <= Len(t) /\ t[i] \in first /\ WordBoundary(t, i)) THEN 0
    ELSE LET u == RunEnd(t, i, UserChars)
         IN  IF u > Len(t) \/ t[u] # "@" THEN 0
             ELSE LET b == RunEnd(t, u + 1, DomainChars)
                      dots == {q \in (u + 2)..(b - 1) :
                                 /\ t[q] = "."
                                 /\ LET m == RunEnd(t, q + 1, AsciiLetters)
                                    IN  m - (q + 1) >= 2 /\ WordBoundary(t, m)}
                  IN  IF dots = {} THEN 0
                      ELSE RunEnd(t, Max(dots) + 1, AsciiLetters)

\* [a-zA-Z0-9], the first character of the auditor's email pattern
AlnumChars == AsciiLetters \cup Digits

RECURSIVE EmailLeaksFrom(_, _)
\* len(re.findall(email_pattern, content)), scanning from position i
EmailLeaksFrom(t, i) ==
    IF i > Len(t) THEN 0
    ELSE LET e == EmailMatchEnd(t, i, AlnumChars)
         IN  IF e = 0 THEN EmailLeaksFrom(t, i + 1)
             ELSE 1 + EmailLeaksFrom(t, e)

EmailLeaks(t) == EmailLeaksFrom(t, 1)

\* where a match of (?<!\*)\b\d{7,}\b that starts at i ends, 0 if none
NumberMatchEnd(t, i) ==
    IF i <= Len(t) /\ IsDigit(t[i])
       /\ WordBoundary(t, i)
       /\ (i = 1 \/ t[i - 1] # "*")
       /\ RunEnd(t, i, Digits) - i >= MIN_LEAK_DIGITS
       /\ WordBoundary(t, RunEnd(t, i, Digits))
    THEN RunEnd(t, i, Digits) ELSE 0

\* the matches of the number pattern that are not part of the file's name
NumberLeaks(t, file_name_check) ==
    Cardinality({i \in 1..Len(t) :
        /\ NumberMatchEnd(t, i) # 0
        /\ ~Contains(file_name_check, Slice(t, i, NumberMatchEnd(t, i)))})

\* leak_count of check_html_leakage_count for a page that could be read
LeakCount(content, file_name_check) ==
    EmailLeaks(content) + NumberLeaks(content, file_name_check)

MaxAuditFragments == 3
AuditFragments == <<<<"1", "2", "3", "4", "5", "6", "7">>, <<"1", "2", "3", "4", "5", "6">>, <<"7", "6", "5", "4", "3", "2", "1">>,
                    <<"a">>, <<"_">>, <<"*">>, <<" ">>, <<"-">>>>
AuditTexts == TextsOf(AuditFragments, MaxAuditFragments)
AuditNames == {<<"d", "s", "_", "1", "2", "3", "4", "5", "6", "7">>, <<"k", "h", "a", "c", "h">>}

InitAudit ==
    /\ NoPipeline
    /\ fn = "check_html_leakage_count"
    /\ value \in AuditTexts
    /\ file_name \in AuditNames
    /\ df = <<>>
    /\ ret = <<>>
    /\ called = FALSE

CallAudit ==
    /\ fn = "check_html_leakage_count"
    /\ ~called
    /\ ret' = <<LeakCount(value, file_name)>>
    /\ called' = TRUE
    /\ UNCHANGED <<fn, value, file_name, df>>
    /\ UNCHANGED pipeline_vars

NextAudit == CallAudit

SpecAudit == InitAudit /\ [][NextAudit]_vars

\* the maximal digit runs of t, by their first position
DigitRuns(t) ==
    {i \in 1..Len(t) : IsDigit(t[i]) /\ (i = 1 \/ ~IsDigit(t[i - 1]))}

\* C12: the auditor counts every digit run of at least 7 digits that is not
\* right after a '*' and is not part of the file's name, whatever surrounds
\* the run, and counts no run that is part of the file's name.
C12_CountsEveryLongRun ==
    (fn = "check_html_leakage_count" /\ called) =>
        ret[1] - EmailLeaks(value) =
            Cardinality({i \in DigitRuns(value) :
                /\ RunEnd(value, i, Digits) - i >= MIN_LEAK_DIGITS
                /\ (i = 1 \/ value[i - 1] # "*")
                /\ ~Contains(file_name, Slice(value, i, RunEnd(value, i, Digits)))})


\* ---- mask_cell_value ---------------------------------------------------
KEYWORDS_TO_MASK ==
    <<<<"t", "r", "a", "n", "g", "v", "a", "n", "g">>,
      <<"s", "c", "r", "i", "b", "d">>,
      <<"h", "s", "c", "t">>,
      <<"h", "o", "s", "o", "c", "o", "n", "g", "t", "y">>,
      <<"t", "h", "u", "ế">>,
      <<"t", "h", "u", "e">>,
      <<"m", "a", "s", "o", "t", "h", "u", "e">>,
      <<"d", "a", "t", "a", "5", "s">>,
      <<"g", "o", "o", "g", "l", "e", ".", "c", "o", "m", "/", "m", "a", "p", "s", "/">>>>

\* the list as the batch variant that moves rejected files orders it
KEYWORDS_TO_MASK_MOVE ==
    <<<<"t", "r", "a", "n", "g", "v", "a", "n", "g">>,
      <<"s", "c", "r", "i", "b", "d">>,
      <<"h", "s", "c", "t">>,
      <<"h", "o", "s", "o", "c", "o", "n", "g", "t", "y">>,
      <<"m", "a", "s", "o", "t", "h", "u", "e">>,
      <<"d", "a", "t", "a", "5", "s">>,
      <<"g", "o", "o", "g", "l", "e", ".", "c", "o", "m", "/", "m", "a", "p", "s", "/">>,
      <<"t", "h", "u", "ế">>,
      <<"t", "h", "u", "e">>>>

\* mask_all_chars
mask_all_charsMut(match) == <<"*">>
mask_all_chars(match) == Stars(Len(match))

\* math.ceil(n / 2)
CeilHalfMut(n) == n \div 2
CeilHalf(n) == (n + 1) \div 2

\* mask_number_group
\* variant of mask_number_group: the second half of the run is masked
mask_number_groupMut(digit_str) ==
    LET num_to_mask == CeilHalf(Len(digit_str))
    IN  Slice(digit_str, 1, Len(digit_str) - num_to_mask + 1) \o Stars(num_to_mask)

mask_number_group(digit_str) ==
    LET num_to_mask == CeilHalf(Len(digit_str))
    IN  Stars(num_to_mask) \o Slice(digit_str, num_to_mask + 1, Len(digit_str) + 1)

\* mask_email_group: the match holds one '@', right after its user part
mask_email_groupMut(email) == email
mask_email_group(email) ==
    LET at == CHOOSE i \in 1..Len(email) :
                  email[i] = "@" /\ \A j \in 1..(i - 1) : email[j] # "@"
    IN  Stars(at - 1) \o Slice(email, at, Len(email) + 1)

\* the URL-leading tokens of url_pattern: http://, https://, www.
UrlTokenEnd(t, i) ==
    IF HasAt(t, i, <<"h", "t", "t", "p", "s", ":", "/", "/">>, FALSE) THEN i + 8
    ELSE IF HasAt(t, i, <<"h", "t", "t", "p", ":", "/", "/">>, FALSE) THEN i + 7
    ELSE IF HasAt(t, i, <<"w", "w", "w", ".">>, FALSE) THEN i + 4
    ELSE 0

\* where a match of \b(?:https?://|www\.)\S+\b that starts at i ends (the
\* position after its last character), 0 if none starts there: \S+ takes the
\* longest run and gives characters back until a word boundary is found
UrlMatchEnd(t, i) ==
    IF ~WordBoundary(t, i) \/ UrlTokenEnd(t, i) = 0 THEN 0
    ELSE LET p == UrlTokenEnd(t, i)
             ends == {e \in (p + 1)..NonSpaceEnd(t, p) : WordBoundary(t, e)}
         IN  IF ends = {} THEN 0 ELSE Max(ends)

RECURSIVE SubUrl(_, _)
\* re.sub(url_pattern, mask_all_chars, text), from position i on
SubUrl(t, i) ==
    IF i > Len(t) THEN <<>>
    ELSE LET e == UrlMatchEnd(t, i)
         IN  IF e = 0 THEN <<t[i]>> \o SubUrl(t, i + 1)
             ELSE mask_all_chars(Slice(t, i, e)) \o SubUrl(t, e)

RECURSIVE SubKeyword(_, _, _)
\* re.compile(re.escape(keyword), re.IGNORECASE).sub(mask_all_chars, text)
SubKeyword(t, keyword, i) ==
    IF i > Len(t) THEN <<>>
    ELSE IF HasAt(t, i, keyword, TRUE)
         THEN mask_all_chars(keyword) \o SubKeyword(t, keyword, i + Len(keyword))
         ELSE <<t[i]>> \o SubKeyword(t, keyword, i + 1)

RECURSIVE MaskKeywords(_, _, _)
\* the loop over the keywords: each pass works on the text the one before left
MaskKeywords(t, keywords, n) ==
    IF n > Len(keywords) THEN t
    ELSE MaskKeywords(SubKeyword(t, keywords[n], 1), keywords, n + 1)

RECURSIVE SubEmail(_, _)
\* re.sub(email_pattern, mask_email_group, text), from position i on
SubEmail(t, i) ==
    IF i > Len(t) THEN <<>>
    ELSE LET e == EmailMatchEnd(t, i, UserChars)
         IN  IF e = 0 THEN <<t[i]>> \o SubEmail(t, i + 1)
             ELSE mask_email_group(Slice(t, i, e)) \o SubEmail(t, e)

RECURSIVE SubDigits(_, _)
\* re.sub(r'\d+', mask_number_group, text), from position i on
SubDigits(t, i) ==
    IF i > Len(t) THEN <<>>
    ELSE IF IsDigit(t[i])
         THEN mask_number_group(Slice(t, i, RunEnd(t, i, Digits)))
                  \o SubDigits(t, RunEnd(t, i, Digits))
         ELSE <<t[i]>> \o SubDigits(t, i + 1)

\* the text of a cell is empty or 'nan' once stripped (lines 164 and 255)
IsNanText(text) == Lower(Strip(text)) = <<"n", "a", "n">>

MaskWith(cell, keywords) ==
    LET text == Str(cell)
    IN  IF text = <<>> \/ IsNanText(text) THEN <<>>
        ELSE SubDigits(SubEmail(MaskKeywords(SubUrl(text, 1), keywords, 1), 1), 1)

mask_cell_value(cell) == MaskWith(cell, KEYWORDS_TO_MASK)


\* ---- sheets ------------------------------------------------------------
\* A sheet (DataFrame) is a sequence of rows; a row carries its index label
\* and its cells; a cell is a text or NaN.
ROWS_PER_PAGE == 10
DATA_COLS_TO_KEEP == 15
HEADER_ROWS_TO_CHECK == 30

KEYWORDS_TO_REMOVE_CELL ==
    <<<<"t", "r", "a", "n", "g", " ", "v", "a", "n", "g">>,
      <<"t", "r", "a", "n", "g", "v", "a", "n", "g">>,
      <<"s", "c", "r", "i", "b", "d">>,
      <<"h", "s", "c", "t">>,
      <<"h", "o", "s", "o", "c", "o", "n", "g", "t", "y">>,
      <<"m", "s", "t">>,
      <<"m", "a", "s", "o", "t", "h", "u", "e">>,
      <<"d", "a", "t", "a", "5", "s">>,
      <<"g", "o", "o", "g", "l", "e", ".", "c", "o", "m", "/", "m", "a", "p">>>>

FACEBOOK_URL_TO_CHECK ==
    <<"h", "t", "t", "p", "s", ":", "/", "/", "w", "w", "w", ".", "f", "a", "c", "e", "b", "o", "o", "k", ".", "c", "o", "m", "/", "d", "a", "t", "a", "k", "h", "a", "c", "h", "h", "a", "n", "g", "t", "i", "e", "m", "n", "a", "n", "g", "1">>

Min(a, b) == IF a <= b THEN a ELSE b

\* DataFrame.reset_index(drop=True)
reset_indexMut(rows) == rows
reset_index(rows) ==
    [i \in 1..Len(rows) |-> [index |-> i - 1, cells |-> rows[i].cells]]

\* FACEBOOK_URL_TO_CHECK.lower()
FACEBOOK_URL_LOWER == Lower(FACEBOOK_URL_TO_CHECK)

\* the test of line 85 on one row
HasSentinel(row) ==
    \E c \in 1..Len(row.cells) :
        Contains(Lower(Strip(Str(row.cells[c]))), FACEBOOK_URL_LOWER)

\* df.iloc[row_idx + 1:], row_idx being 0-based
RowsAfterMut(d, row_idx) == SubSeq(d, row_idx + 1, Len(d))
RowsAfter(d, row_idx) == SubSeq(d, row_idx + 2, Len(d))

remove_header_rows_with_facebook_url(d) ==
    LET max_rows_to_check == Min(HEADER_ROWS_TO_CHECK, Len(d))
        found == {row_idx \in 0..(max_rows_to_check - 1) : HasSentinel(d[row_idx + 1])}
    IN  IF found = {} THEN d
        ELSE reset_index(RowsAfter(d, CHOOSE r \in found : \A q \in found : r <= q))

\* keyword.lower() of line 132, for each keyword
KEYWORDS_TO_REMOVE_LOWER ==
    [n \in 1..Len(KEYWORDS_TO_REMOVE_CELL) |-> Lower(KEYWORDS_TO_REMOVE_CELL[n])]

\* text = str(value).lower() of line 127
CellTextMut(cell) == Str(cell)
CellText(cell) == Lower(Str(cell))

should_remove_cell_content(cell) ==
    LET text == CellText(cell)
    IN  IF text = <<>> \/ Strip(text) = <<"n", "a", "n">> THEN FALSE
        ELSE \E n \in 1..Len(KEYWORDS_TO_REMOVE_CELL) :
                 Contains(text, KEYWORDS_TO_REMOVE_LOWER[n])

clean_cell(cell) == IF should_remove_cell_content(cell) THEN <<>> ELSE cell

clean_dataframe_cells(d) ==
    [i \in 1..Len(d) |->
        [index |-> d[i].index,
         cells |-> [c \in 1..Len(d[i].cells) |-> clean_cell(d[i].cells[c])]]]

\* ---- generate_html_for_sheet -------------------------------------------
\* the row filter of line 239
RowHasData(row) ==
    \E c \in 1..Len(row.cells) :
        /\ Strip(Str(row.cells[c])) # <<>>
        /\ ~IsNanText(Str(row.cells[c]))

\* math.ceil(n / ROWS_PER_PAGE)
NumPagesMut(n) == n \div ROWS_PER_PAGE
NumPages(n) == (n + ROWS_PER_PAGE - 1) \div ROWS_PER_PAGE

\* the record of a cell that holds no data (lines 258 and 261)
EmptyCell == [value |-> <<>>]

\* the record of a row of page_df (lines 253-259); the row number is held as
\* a one-element tuple, the marker of a placeholder row as the text " "
RowRecord(row) ==
    [excel_row_num |-> <<row.index + 1>>,
     cells |-> [c \in 1..DATA_COLS_TO_KEEP |->
                  IF c <= Len(row.cells)
                  THEN [value |-> mask_cell_value(
                                      IF IsNanText(Str(row.cells[c])) THEN <<>>
                                      ELSE row.cells[c])]
                  ELSE EmptyCell]]

PlaceholderRow ==
    [excel_row_num |-> <<" ">>, cells |-> [c \in 1..DATA_COLS_TO_KEEP |-> EmptyCell]]

\* page_data of page i (1-based) of the filtered sheet
PageData(kept, i) ==
    LET page_df == SubSeq(kept, (i - 1) * ROWS_PER_PAGE + 1,
                          Min(i * ROWS_PER_PAGE, Len(kept)))
    IN  [p \in 1..ROWS_PER_PAGE |->
            IF p <= Len(page_df) THEN RowRecord(page_df[p]) ELSE PlaceholderRow]

\* the page_data of every page the function writes, in order
generate_html_for_sheet(d) ==
    LET cut == [i \in 1..Len(d) |->
                   [index |-> d[i].index,
                    cells |-> SubSeq(d[i].cells, 1,
                                     Min(Len(d[i].cells), DATA_COLS_TO_KEEP))]]
        kept == SelectSeq(cut, RowHasData)
    IN  [i \in 1..NumPages(Len(kept)) |-> PageData(kept, i)]


\* ---- generate_html_for_sheet on the sheets the pipeline hands to it -----
MaxRows == 23           \* rows of a sheet as read from the workbook
SheetCols == {2, DATA_COLS_TO_KEEP + 1}

\* row r of a workbook sheet: a data row, a row of empty cells, a row whose
\* only text is a keyword of KEYWORDS_TO_REMOVE_CELL, or the header row that
\* holds the sentinel URL
SheetRow(r, kind, ncols) ==
    [index |-> r - 1,
     cells |-> [c \in 1..ncols |->
        IF c = DATA_COLS_TO_KEEP + 1 THEN <<"x">>
        ELSE IF kind = "sentinel"
             THEN (IF c = 1 THEN FACEBOOK_URL_TO_CHECK ELSE <<>>)
        ELSE IF kind = "data"
             THEN (IF c = 1 THEN <<LowerSeq[((r - 1) % 26) + 1]>>
                   ELSE IF c = 2 THEN <<"4", "7">> ELSE <<>>)
        ELSE IF kind = "removed"
             THEN (IF c = 1 THEN <<"S", "c", "r", "i", "b", "d">> ELSE NaN)
        ELSE (IF c % 3 = 0 THEN NaN ELSE IF c % 3 = 1 THEN <<>> ELSE <<" ">>)]]

\* a sheet of n rows as pd.read_excel(header=None) returns it: the rows of
\* blanks hold no data (the even ones only once sanitized), row h (if any)
\* is the header row with the sentinel
WorkbookSheet(n, blanks, ncols, h) ==
    [r \in 1..n |->
        SheetRow(r, IF r = h THEN "sentinel"
                    ELSE IF r \notin blanks THEN "data"
                    ELSE IF r % 2 = 0 THEN "removed" ELSE "blank", ncols)]

\* at most two rows without data, given as a pair a <= b (0: no such row)
BlankRows(a, b) == {a, b} \ {0}

\* steps 0a and 0b of process_excel_file on one sheet
Preprocess(sheet) ==
    clean_dataframe_cells(remove_header_rows_with_facebook_url(sheet))

\* value is the sheet as read, df the sheet handed to generate_html_for_sheet
InitGenerate ==
    /\ NoPipeline
    /\ fn = "generate_html_for_sheet"
    /\ \E n \in 0..MaxRows : \E b \in 0..n : \E a \in 0..b :
       \E ncols \in SheetCols : \E h \in 0..Min(n, 2) :
           value = WorkbookSheet(n, BlankRows(a, b), ncols, h)
    /\ df = Preprocess(value)
    /\ file_name = <<>>
    /\ ret = <<>>
    /\ called = FALSE

CallGenerate ==
    /\ fn = "generate_html_for_sheet"
    /\ ~called
    /\ ret' = generate_html_for_sheet(df)
    /\ called' = TRUE
    /\ UNCHANGED <<fn, value, file_name, df>>
    /\ UNCHANGED pipeline_vars

NextGenerate == CallGenerate

SpecGenerate == InitGenerate /\ [][NextGenerate]_vars

\* the positions (1-based) in sheet d of the rows that hold data in one of
\* the first DATA_COLS_TO_KEEP columns, in order
NonBlankRows(d) ==
    SelectSeq([i \in 1..Len(d) |-> i],
              LAMBDA i : \E c \in 1..Min(Len(d[i].cells), DATA_COLS_TO_KEEP) :
                             /\ d[i].cells[c] # NaN
                             /\ Strip(d[i].cells[c]) # <<>>
                             /\ Lower(Strip(d[i].cells[c])) # <<"n", "a", "n">>)

\* the cell values a page shows for a row of cells
ShownValues(cells) ==
    [c \in 1..DATA_COLS_TO_KEEP |->
        IF c <= Len(cells) THEN mask_cell_value(cells[c]) ELSE <<>>]

ValuesOf(record) == [c \in 1..Len(record.cells) |-> record.cells[c].value]

\* C13: a sheet with R > 0 non-blank rows gives ceil(R / ROWS_PER_PAGE)
\* pages; page i holds the rows (i-1)*ROWS_PER_PAGE+1 .. min(i*ROWS_PER_PAGE, R)
\* of the filtered sheet in order, then placeholder rows; every page holds
\* ROWS_PER_PAGE records of DATA_COLS_TO_KEEP cells.
C13_PaginationComplete ==
    (fn = "generate_html_for_sheet" /\ called /\ NonBlankRows(df) # <<>>) =>
        LET rows == NonBlankRows(df)
            R == Len(rows)
        IN  /\ (Len(ret) - 1) * ROWS_PER_PAGE < R
            /\ R <= Len(ret) * ROWS_PER_PAGE
            /\ \A i \in 1..Len(ret) :
                 /\ Len(ret[i]) = ROWS_PER_PAGE
                 /\ \A p \in 1..ROWS_PER_PAGE :
                      LET j == (i - 1) * ROWS_PER_PAGE + p
                      IN  /\ Len(ret[i][p].cells) = DATA_COLS_TO_KEEP
                          /\ ValuesOf(ret[i][p]) =
                                 IF j <= R THEN ShownValues(df[rows[j]].cells)
                                 ELSE ShownValues(<<>>)

\* 23 rows of data give three pages, the third with 3 rows and 7 placeholders
C13_Witness ==
    /\ fn = "generate_html_for_sheet" /\ called
    /\ Len(NonBlankRows(df)) = 2 * ROWS_PER_PAGE + 3
    /\ Len(ret) = 3
    /\ ret[3][3].cells[1].value = <<"w">>
    /\ ret[3][4] = PlaceholderRow

\* C14: every record of a row carries the row's 1-based position in the
\* sheet handed to generate_html_for_sheet (header rows stripped, cells
\* sanitized, blank rows still in), so the numbers rise strictly and skip the
\* dropped rows; every placeholder record carries the marker " ".
C14_RowTraceability ==
    (fn = "generate_html_for_sheet" /\ called) =>
        LET rows == NonBlankRows(df)
        IN  \A i \in 1..Len(ret) : \A p \in 1..Len(ret[i]) :
                LET j == (i - 1) * ROWS_PER_PAGE + p
                IN  ret[i][p].excel_row_num =
                        IF j <= Len(rows) THEN <<rows[j]>> ELSE <<" ">>

\* a header row was stripped, a blank row was dropped between two rows of a
\* page, and the last page holds a placeholder
C14_Witness ==
    /\ fn = "generate_html_for_sheet" /\ called
    /\ Len(df) < Len(value)
    /\ Len(ret) = 2
    /\ \E p \in 1..(ROWS_PER_PAGE - 1) :
         ret[1][p + 1].excel_row_num[1] = ret[1][p].excel_row_num[1] + 2
    /\ ret[2][ROWS_PER_PAGE].excel_row_num = <<" ">>


\* ---- remove_header_rows_with_facebook_url on its own ---------------------
MaxHeaderRows == 32     \* rows of a sheet, beyond the HEADER_ROWS_TO_CHECK checked

\* a cell that holds the sentinel in other letter case, inside other text
SentinelInText ==
    <<"x", " ">> \o [i \in 1..Len(FACEBOOK_URL_TO_CHECK) |->
                       IF FACEBOOK_URL_TO_CHECK[i] \in Range(LowerSeq)
                       THEN UpperSeq[CHOOSE j \in 1..Len(LowerSeq) :
                                         LowerSeq[j] = FACEBOOK_URL_TO_CHECK[i]]
                       ELSE FACEBOOK_URL_TO_CHECK[i]] \o <<"?">>

\* a sheet of n rows of two cells; the rows a and b (if not 0) hold the
\* sentinel in their second cell, the first of them as SentinelInText
HeaderSheet(n, a, b) ==
    [r \in 1..n |->
        [index |-> r - 1,
         cells |-> <<<<LowerSeq[((r - 1) % 26) + 1]>>,
                     IF r = a THEN SentinelInText
                     ELSE IF r = b THEN FACEBOOK_URL_TO_CHECK
                     ELSE NaN>>]]

InitHeader ==
    /\ NoPipeline
    /\ fn = "remove_header_rows_with_facebook_url"
    /\ \E n \in 0..MaxHeaderRows : \E b \in 0..n : \E a \in 0..b :
           df = HeaderSheet(n, a, b)
    /\ value = <<>>
    /\ file_name = <<>>
    /\ ret = <<>>
    /\ called = FALSE

CallHeader ==
    /\ fn = "remove_header_rows_with_facebook_url"
    /\ ~called
    /\ ret' = remove_header_rows_with_facebook_url(df)
    /\ called' = TRUE
    /\ UNCHANGED <<fn, value, file_name, df>>
    /\ UNCHANGED pipeline_vars

NextHeader == CallHeader

SpecHeader == InitHeader /\ [][NextHeader]_vars

\* the 0-based indices of the rows of d with a cell that holds the sentinel
\* as a substring, whatever its letter case
SentinelRows(d) ==
    {r \in 0..(Len(d) - 1) :
        \E c \in 1..Len(d[r + 1].cells) : \E i \in 1..Len(Str(d[r + 1].cells[c])) :
            HasAt(Str(d[r + 1].cells[c]), i, FACEBOOK_URL_TO_CHECK, TRUE)}

CellsOf(d) == [i \in 1..Len(d) |-> d[i].cells]

\* C15: if the first row that holds the sentinel has 0-based index r < 30,
\* the result is the rows r+1 .. end in order (later rows kept even if they
\* hold the sentinel too); with no sentinel at an index < 30 the sheet is
\* returned unchanged.
C15_HeaderStripped ==
    (fn = "remove_header_rows_with_facebook_url" /\ called) =>
        LET early == {r \in SentinelRows(df) : r < HEADER_ROWS_TO_CHECK}
        IN  IF early = {} THEN ret = df
            ELSE LET r == CHOOSE x \in early : \A y \in early : x <= y
                 IN  CellsOf(ret) = [i \in 1..(Len(df) - r - 1) |-> df[r + 1 + i].cells]

\* the sentinel stands at index 29 and again later: rows 0..29 are dropped
C15_Witness ==
    /\ fn = "remove_header_rows_with_facebook_url" /\ called
    /\ SentinelRows(df) = {29, 31}
    /\ Len(df) = 32
    /\ Len(ret) = 2
    /\ SentinelRows(ret) = {1}

\* the sentinel stands at index 30 only: nothing is dropped
C15_WitnessLate ==
    /\ fn = "remove_header_rows_with_facebook_url" /\ called
    /\ SentinelRows(df) = {30}
    /\ ret = df


\* ---- clean_cell on its own ----------------------------------------------
MaxCleanFragments == 3
CleanFragments == <<<<"S", "c", "r", "i", "b", "d">>, <<"T", "R", "A", "N", "G">>, <<" ">>, <<"v", "a", "n", "g">>, <<"M", "s", "t">>,
                    <<"a">>, <<"n", "a", "n">>, <<"4", "7">>>>
CleanCells == {NaN} \cup TextsOf(CleanFragments, MaxCleanFragments)

InitClean ==
    /\ NoPipeline
    /\ fn = "clean_cell"
    /\ value \in CleanCells
    /\ file_name = <<>>
    /\ df = <<>>
    /\ ret = <<>>
    /\ called = FALSE

CallClean ==
    /\ fn = "clean_cell"
    /\ ~called
    /\ ret' = clean_cell(value)
    /\ called' = TRUE
    /\ UNCHANGED <<fn, value, file_name, df>>
    /\ UNCHANGED pipeline_vars

NextClean == CallClean

SpecClean == InitClean /\ [][NextClean]_vars

\* the text of the cell holds a keyword of KEYWORDS_TO_REMOVE_CELL, whatever
\* the letter case
HoldsRemoveKeyword(cell) ==
    \E n \in 1..Len(KEYWORDS_TO_REMOVE_CELL) : \E i \in 1..Len(Str(cell)) :
        HasAt(Str(cell), i, KEYWORDS_TO_REMOVE_CELL[n], TRUE)

\* C16: clean_cell gives the empty string when the cell's text holds a
\* keyword of KEYWORDS_TO_REMOVE_CELL in any letter case and the cell itself
\* otherwise; cleaning the result again changes nothing.
C16_CleanCell ==
    (fn = "clean_cell" /\ called) =>
        /\ ret = (IF HoldsRemoveKeyword(value) THEN <<>> ELSE value)
        /\ clean_cell(ret) = ret

\* a cell with a keyword in mixed case inside other text was emptied
C16_Witness ==
    /\ fn = "clean_cell" /\ called
    /\ value # Lower(value)
    /\ HoldsRemoveKeyword(value)
    /\ Len(value) > 6
    /\ ret = <<>>


\* ---- mask_cell_value on its own -----------------------------------------
MaxMaskFragments == 3
MaskFragments ==
    <<<<"h", "t", "t", "p", "s", ":", "/", "/">>,
      <<"w", "w", "w", ".">>,
      <<"a">>,
      <<"b", ".", "v", "n">>,
      <<"/">>,
      <<" ">>,
      <<"@">>,
      <<"1", "2", "3", "4", "5">>,
      <<"4", "7">>,
      <<"t", "h", "u", "e">>,
      <<"m", "a", "s", "o", "t", "h", "u", "e">>,
      <<"S", "c", "r", "i", "b", "d">>,
      <<"n", "a", "n">>,
      <<"-">>>>
MaskTexts == TextsOf(MaskFragments, MaxMaskFragments)

\* a cell with an address, a phone number and a URL
ScenarioCell ==
    <<"C", "o", "n", "t", "a", "c", "t", ":", " ", "j", "o", "h", "n", ".",
      "d", "o", "e", "@", "e", "x", "a", "m", "p", "l", "e", ".", "c", "o",
      "m", " ", "o", "r", " ", "0", "9", "8", "7", "6", "5", "4", "3", "2",
      "1", ",", " ", "s", "e", "e", " ", "h", "t", "t", "p", "s", ":", "/",
      "/", "t", "r", "a", "n", "g", "v", "a", "n", "g", ".", "v", "n", "/",
      "x">>

InitMask ==
    /\ NoPipeline
    /\ fn = "mask_cell_value"
    /\ value \in MaskTexts \cup {ScenarioCell}
    /\ file_name = <<>>
    /\ df = <<>>
    /\ ret = <<>>
    /\ called = FALSE

CallMask ==
    /\ fn = "mask_cell_value"
    /\ ~called
    /\ ret' = mask_cell_value(value)
    /\ called' = TRUE
    /\ UNCHANGED <<fn, value, file_name, df>>
    /\ UNCHANGED pipeline_vars

NextMask == CallMask

SpecMask == InitMask /\ [][NextMask]_vars

\* mask_cell_value was called on a text it does not take for a missing cell
Masked == fn = "mask_cell_value" /\ called /\ value # <<>> /\ ~IsNanText(value)

\* C17: every substring that starts with http://, https:// or www. and goes
\* on through a run of non-whitespace characters is '*' in the output from
\* its first character to the last character of the run, at the same length,
\* whatever character the run ends with.
C17_UrlDestroyed ==
    Masked =>
        /\ Len(ret) = Len(value)
        /\ \A i \in 1..Len(value) :
             (UrlTokenEnd(value, i) # 0
                /\ NonSpaceEnd(value, UrlTokenEnd(value, i)) > UrlTokenEnd(value, i))
             => \A j \in i..(NonSpaceEnd(value, i) - 1) : ret[j] = "*"


\* C18: every occurrence of every keyword of KEYWORDS_TO_MASK, in any letter
\* case, has all its positions '*' in the output, whatever the order of the
\* list (also for a keyword that holds another one, as masothue holds thue).
C18_KeywordsDestroyed ==
    Masked =>
        /\ Len(ret) = Len(value)
        /\ \A n \in 1..Len(KEYWORDS_TO_MASK) : \A i \in 1..Len(value) :
             HasAt(value, i, KEYWORDS_TO_MASK[n], TRUE)
             => \A j \in i..(i + Len(KEYWORDS_TO_MASK[n]) - 1) : ret[j] = "*"

\* the position of '@' if t is a valid address user@domain, else 0: user is
\* a non-empty string over letters, digits and ._%+-; domain is over letters,
\* digits, hyphen and dot and ends in a dot and at least two letters
ValidEmailAt(t) ==
    LET ats == {u \in 2..Len(t) :
                  /\ t[u] = "@"
                  /\ \A j \in 1..(u - 1) : t[j] \in UserChars
                  /\ \A j \in (u + 1)..Len(t) : t[j] \in DomainChars
                  /\ \E q \in (u + 2)..(Len(t) - 2) :
                       /\ t[q] = "."
                       /\ \A j \in (q + 1)..Len(t) : t[j] \in AsciiLetters}
    IN  IF ats = {} THEN 0 ELSE CHOOSE u \in ats : TRUE

\* C19: for a valid address user@domain the output is len(user) asterisks,
\* then '@' and the domain as it was.
C19_EmailUserMasked ==
    (Masked /\ ValidEmailAt(value) # 0) =>
        ret = Stars(ValidEmailAt(value) - 1)
                  \o Slice(value, ValidEmailAt(value), Len(value) + 1)

\* the text holds no match of the URL pattern, of a keyword or of the email
\* pattern: none of the three passes changes it
NoMatch(t) ==
    /\ SubUrl(t, 1) = t
    /\ MaskKeywords(t, KEYWORDS_TO_MASK, 1) = t
    /\ SubEmail(t, 1) = t

RECURSIVE RunStart(_, _)
\* the first position of the digit run that position i of t is part of
RunStart(t, i) ==
    IF i > 1 /\ IsDigit(t[i - 1]) THEN RunStart(t, i - 1) ELSE i

\* position by position: a digit is '*' if it stands in the first
\* ceil(n/2) places of its run of n digits, and every other character is kept
HalfMasked(t, out) ==
    /\ Len(out) = Len(t)
    /\ \A i \in 1..Len(t) :
         out[i] = IF IsDigit(t[i])
                     /\ 2 * (i - RunStart(t, i))
                            < RunEnd(t, i, Digits) - RunStart(t, i)
                  THEN "*" ELSE t[i]

\* C20 as stated: for every text with no keyword, URL or email match, each
\* maximal run of n digits becomes ceil(n/2) '*' and its last floor(n/2)
\* digits, and every other character is unchanged.
C20_DigitsHalfMaskedAnyText ==
    (fn = "mask_cell_value" /\ called /\ NoMatch(value)) => HalfMasked(value, ret)

\* C20, amended: the same for every such text that is not 'nan' once
\* stripped (whatever the letter case), which is shown as the empty string.
C20_DigitsHalfMasked ==
    (Masked /\ NoMatch(value)) => HalfMasked(value, ret)

\* a run of five digits, a hyphen and a run of two
C20_Witness ==
    /\ Masked /\ NoMatch(value)
    /\ value = <<"1", "2", "3", "4", "5", "-", "4", "7">>
    /\ ret = <<"*", "*", "*", "4", "5", "-", "*", "7">>


\* C21 as stated: the cell ScenarioCell is shown with 8 asterisks for the
\* user of the address, 5 asterisks and 54321 for the number, and 16
\* asterisks for the URL.
C21_ScenarioSixteen ==
    (fn = "mask_cell_value" /\ called /\ value = ScenarioCell) =>
        ret =
        <<"C", "o", "n", "t", "a", "c", "t", ":", " ", "*", "*", "*", "*",
          "*", "*", "*", "*", "@", "e", "x", "a", "m", "p", "l", "e", ".",
          "c", "o", "m", " ", "o", "r", " ", "*", "*", "*", "*", "*", "5",
          "4", "3", "2", "1", ",", " ", "s", "e", "e", " ", "*", "*", "*",
          "*", "*", "*", "*", "*", "*", "*", "*", "*", "*", "*", "*", "*">>

\* C21, amended: the same with 22 asterisks for the URL, one for each of the
\* 22 characters of https://trangvang.vn/x.
C21_Scenario ==
    (fn = "mask_cell_value" /\ called /\ value = ScenarioCell) =>
        ret =
        <<"C", "o", "n", "t", "a", "c", "t", ":", " ", "*", "*", "*", "*",
          "*", "*", "*", "*", "@", "e", "x", "a", "m", "p", "l", "e", ".",
          "c", "o", "m", " ", "o", "r", " ", "*", "*", "*", "*", "*", "5",
          "4", "3", "2", "1", ",", " ", "s", "e", "e", " ", "*", "*", "*",
          "*", "*", "*", "*", "*", "*", "*", "*", "*", "*", "*", "*", "*",
          "*", "*", "*", "*", "*", "*">>

\* the cell was masked: the output has the input's 71 characters, the last of
\* them masked
C21_Witness ==
    /\ Masked
    /\ value = ScenarioCell
    /\ Len(ret) = Len(ScenarioCell)
    /\ ret[Len(ret)] = "*"

\* ---- get_column_widths on a page ----------------------------------------
INDEX_COL_WIDTH == 50
TOP_3_COL_WIDTH == 200
OTHER_COL_WIDTH == 105
TOP_COLUMNS == 3

\* len(str(x).strip()) of a cell (a missing cell is the text 'nan')
TrimLen(cell) == Len(Strip(Str(cell)))

\* the labels of the columns of temp_df (lines 246-248): the source columns
\* are labelled 0, 1, ... by pd.read_excel(header=None), the columns added to
\* reach DATA_COLS_TO_KEEP are labelled 'ph_<position>'
ColumnLabels(ncols) ==
    [c \in 1..DATA_COLS_TO_KEEP |-> [ph |-> c > ncols, n |-> c - 1]]

RECURSIVE LengthSum(_, _, _)
\* the sum over the first n rows of the page of the trimmed length of the cell
\* in column c (a padded column holds '')
LengthSum(page, c, n) ==
    IF n = 0 THEN 0
    ELSE (IF c <= Len(page[n].cells) THEN TrimLen(page[n].cells[c]) ELSE 0)
         + LengthSum(page, c, n - 1)

\* the mean lengths of the columns, times the number of rows
avg_lengths(page) ==
    [c \in 1..DATA_COLS_TO_KEEP |-> LengthSum(page, c, Len(page))]

\* the sets of column positions sort_values(ascending=False).head(3) can
\* give: three columns none of which is shorter than a column left out (the
\* default sort kind is not stable, so equal means come in any order)
TopSets(page) ==
    LET avg == avg_lengths(page)
        C == 1..DATA_COLS_TO_KEEP
    IN  {T \in {{a, b, c} : a, b, c \in C} :
            /\ Cardinality(T) = TOP_COLUMNS
            /\ \A x \in T : \A y \in C \ T : avg[x] >= avg[y]}

\* line 220, 'i in top_3_indices': the position i is compared with the labels
InTop(i, top, labels) == \E c \in top : ~labels[c].ph /\ labels[c].n = i

\* get_column_widths(temp_df), top being what head(3) gave
get_column_widths(page, top) ==
    IF page = <<>> THEN <<>>
    ELSE <<INDEX_COL_WIDTH>> \o
         [j \in 1..DATA_COLS_TO_KEEP |->
             IF InTop(j - 1, top, ColumnLabels(Len(page[1].cells)))
             THEN TOP_3_COL_WIDTH ELSE OTHER_COL_WIDTH]

MaxSourceCols == 4      \* source columns whose cells vary freely
WidthCells == {<<>>, NaN, <<"a">>, <<" ", "b", "b", " ">>, <<"c", "c", "c", "c", "c">>}

\* the row of a page: the first cells as given, then (in a sheet of
\* DATA_COLS_TO_KEEP columns) cells of 0 to 2 characters
WidthRow(cells, ncols) ==
    [index |-> 0,
     cells |-> [c \in 1..ncols |->
                  IF c <= Len(cells) THEN cells[c]
                  ELSE [i \in 1..(c % 3) |-> "x"]]]

\* a second row of the page: one character in every cell
OnesRow(ncols) == [index |-> 1, cells |-> [c \in 1..ncols |-> <<"y">>]]

InitWidths ==
    /\ NoPipeline
    /\ fn = "get_column_widths"
    /\ \E n \in 1..MaxSourceCols : \E cells \in [1..n -> WidthCells] :
       \E ncols \in {n, DATA_COLS_TO_KEEP} : \E two \in BOOLEAN :
           \* line 239 has dropped the rows without data before paging
           /\ RowHasData(WidthRow(cells, ncols))
           /\ df = <<WidthRow(cells, ncols)>> \o (IF two THEN <<OnesRow(ncols)>> ELSE <<>>)
    /\ value = <<>>
    /\ file_name = <<>>
    /\ ret = <<>>
    /\ called = FALSE

CallWidths ==
    /\ fn = "get_column_widths"
    /\ ~called
    /\ \E top \in TopSets(df) : ret' = get_column_widths(df, top)
    /\ called' = TRUE
    /\ UNCHANGED <<fn, value, file_name, df>>
    /\ UNCHANGED pipeline_vars

NextWidths == CallWidths

SpecWidths == InitWidths /\ [][NextWidths]_vars

\* the three columns of greatest mean length, a column of lower position
\* going before one of equal mean
FirstTopThree(page) ==
    LET avg == avg_lengths(page)
        C == 1..DATA_COLS_TO_KEEP
    IN  {x \in C : Cardinality({y \in C : avg[y] > avg[x]
                                          \/ (avg[y] = avg[x] /\ y < x)})
                       < TOP_COLUMNS}

\* C22: the widths of a page are INDEX_COL_WIDTH and then DATA_COLS_TO_KEEP
\* data widths, TOP_3_COL_WIDTH for the three columns of greatest mean
\* trimmed length (the lower column first among equals) and OTHER_COL_WIDTH
\* for the others, for 1 to DATA_COLS_TO_KEEP source columns.
C22_ThreeWideColumns ==
    (fn = "get_column_widths" /\ called) =>
        ret = <<INDEX_COL_WIDTH>> \o
              [j \in 1..DATA_COLS_TO_KEEP |->
                  IF j \in FirstTopThree(df) THEN TOP_3_COL_WIDTH
                  ELSE OTHER_COL_WIDTH]

\* ---- get_cell_class -----------------------------------------------------
ROW_HEIGHT == 108
CELL_PADDING_X == 10
LINE_HEIGHT_ESTIMATE == 18
\* AVG_CHAR_WIDTH = 8.5, in tenths of a pixel
AVG_CHAR_WIDTH_TENTHS == 85

\* math.ceil(a / b) for a >= 0 and b > 0
CeilDivMut(a, b) == a \div b
CeilDiv(a, b) == (a + b - 1) \div b

get_cell_class(text, col_width) ==
    LET text_space == col_width - CELL_PADDING_X
    IN  IF text_space <= 0 THEN "no-wrap-text"
        ELSE LET num_lines == CeilDiv(TrimLen(text) * AVG_CHAR_WIDTH_TENTHS,
                                      10 * text_space)
                 estimated_height == num_lines * LINE_HEIGHT_ESTIMATE
             IN  IF estimated_height <= ROW_HEIGHT THEN "wrap-text"
                 ELSE "no-wrap-text"

MaxTextLen == 136       \* characters of a cell's text, blanks around it aside
ClassWidths == {CELL_PADDING_X - 1, CELL_PADDING_X, CELL_PADDING_X + 1,
                INDEX_COL_WIDTH, OTHER_COL_WIDTH, TOP_3_COL_WIDTH}

\* a text of n characters with b blanks before and after it
PaddedText(n, b) ==
    [i \in 1..(n + 2 * b) |-> IF i <= b \/ i > b + n THEN " " ELSE "a"]

InitClass ==
    /\ NoPipeline
    /\ fn = "get_cell_class"
    /\ \E n \in 0..MaxTextLen : \E b \in 0..1 : \E w \in ClassWidths :
           value = [text |-> PaddedText(n, b), col_width |-> w]
    /\ file_name = <<>>
    /\ df = <<>>
    /\ ret = <<>>
    /\ called = FALSE

CallClass ==
    /\ fn = "get_cell_class"
    /\ ~called
    /\ ret' = <<get_cell_class(value.text, value.col_width)>>
    /\ called' = TRUE
    /\ UNCHANGED <<fn, value, file_name, df>>
    /\ UNCHANGED pipeline_vars

NextClass == CallClass

SpecClass == InitClass /\ [][NextClass]_vars

\* the number of characters of t between its leading and trailing blanks
Trimmed(t) ==
    Cardinality({i \in 1..Len(t) :
        /\ \E j \in 1..i : t[j] # " "
        /\ \E j \in i..Len(t) : t[j] # " "})

\* C23: get_cell_class gives no-wrap when the width leaves no room after the
\* padding; otherwise wrap exactly when the lines needed for the trimmed
\* length L, at LINE_HEIGHT_ESTIMATE each, fit in ROW_HEIGHT: wrap iff
\* L <= 134 in a column of 200, iff L <= 67 in a column of 105, and always
\* for an empty text.
C23_WrapThreshold ==
    (fn = "get_cell_class" /\ called) =>
        LET L == Trimmed(value.text)
            room == value.col_width - CELL_PADDING_X
            wrap == ret = <<"wrap-text">>
        IN  /\ ret \in {<<"wrap-text">>, <<"no-wrap-text">>}
            /\ room <= 0 => ~wrap
            /\ room > 0 =>
                 (wrap <=> \E lines \in 0..(ROW_HEIGHT \div LINE_HEIGHT_ESTIMATE) :
                              10 * L * AVG_CHAR_WIDTH_TENTHS <= 100 * lines * room)
            /\ value.col_width = 200 => (wrap <=> L <= 134)
            /\ value.col_width = 105 => (wrap <=> L <= 67)
            /\ (room > 0 /\ L = 0) => wrap

\* 135 characters between blanks do not fit in a wide column
C23_Witness ==
    /\ fn = "get_cell_class" /\ called
    /\ value.col_width = TOP_3_COL_WIDTH
    /\ Len(value.text) = 137
    /\ Trimmed(value.text) = 135
    /\ ret = <<"no-wrap-text">>

\* ---- create_images_from_list --------------------------------------------
FREE_PREVIEW_IMAGES == 10
MaxImagePages == 12     \* pages of an accepted file, over its two sheets

\* the html_list of a file whose first sheet gave a pages and whose second
\* sheet gave b: (type_label, html_path, sheet_name) with the page number of
\* PAGE_<i> counted within the sheet
HtmlList(a, b) ==
    [i \in 1..(a + b) |->
        IF i <= a THEN [page |-> i, sheet |-> 1]
        ELSE [page |-> i - a, sheet |-> 2]]

\* line 376
should_blurMut(global_image_index) == global_image_index > FREE_PREVIEW_IMAGES
should_blur(global_image_index) == global_image_index >= FREE_PREVIEW_IMAGES

\* df is html_list, value the function's position and global_image_index,
\* ret the list created_images
InitImages ==
    /\ NoPipeline
    /\ fn = "create_images_from_list"
    /\ \E a \in 0..MaxImagePages : \E b \in 0..(MaxImagePages - a) :
           df = HtmlList(a, b)
    /\ value = [at |-> "launch", global_image_index |-> 0]
    /\ file_name = <<>>
    /\ ret = <<>>
    /\ called = FALSE

\* an exception of playwright leaves the function: nothing is returned
ImagesRaise ==
    /\ fn = "create_images_from_list"
    /\ value.at \in {"launch", "loop"}
    /\ value' = [value EXCEPT !.at = "raised"]
    /\ ret' = <<>>
    /\ UNCHANGED <<fn, file_name, df, called>>
    /\ UNCHANGED pipeline_vars

\* p.chromium.launch(...), browser.new_page()
ImagesLaunch ==
    /\ fn = "create_images_from_list"
    /\ value.at = "launch"
    /\ value' = [value EXCEPT !.at = "loop"]
    /\ UNCHANGED <<fn, file_name, df, ret, called>>
    /\ UNCHANGED pipeline_vars

\* one iteration of the loop over html_list (lines 366-390)
ImagesRender ==
    /\ fn = "create_images_from_list"
    /\ value.at = "loop"
    /\ value.global_image_index < Len(df)
    /\ LET entry == df[value.global_image_index + 1]
       IN  ret' = Append(ret, [sheet |-> entry.sheet,
                               page |-> entry.page,
                               isBlurred |-> should_blur(value.global_image_index)])
    /\ value' = [value EXCEPT !.global_image_index = @ + 1]
    /\ UNCHANGED <<fn, file_name, df, called>>
    /\ UNCHANGED pipeline_vars

\* browser.close(); return created_images
ImagesReturn ==
    /\ fn = "create_images_from_list"
    /\ value.at = "loop"
    /\ value.global_image_index = Len(df)
    /\ value' = [value EXCEPT !.at = "done"]
    /\ called' = TRUE
    /\ UNCHANGED <<fn, file_name, df, ret>>
    /\ UNCHANGED pipeline_vars

NextImages == ImagesLaunch \/ ImagesRender \/ ImagesReturn \/ ImagesRaise

SpecImages == InitImages /\ [][NextImages]_vars

\* C24: the n-th image made for a file, counted from 1 over the pages of all
\* its sheets in order, is flagged for obscuring exactly when
\* n > FREE_PREVIEW_IMAGES (so never the cover), and the list returned holds
\* one image for each page of the list, in order.
C24_ObscureFlag ==
    fn = "create_images_from_list" =>
        /\ \A n \in 1..Len(ret) :
             /\ ret[n].isBlurred <=> n > FREE_PREVIEW_IMAGES
             /\ ret[n].sheet = df[n].sheet /\ ret[n].page = df[n].page
        /\ called => Len(ret) = Len(df)

\* twelve images were returned; the eleventh is page 4 of the second sheet
\* and is flagged, the tenth is not
C24_Witness ==
    /\ fn = "create_images_from_list" /\ called
    /\ Len(ret) = FREE_PREVIEW_IMAGES + 2
    /\ ~ret[1].isBlurred
    /\ ~ret[FREE_PREVIEW_IMAGES].isBlurred
    /\ ret[FREE_PREVIEW_IMAGES + 1].isBlurred
    /\ ret[FREE_PREVIEW_IMAGES + 1].sheet = 2
    /\ ret[FREE_PREVIEW_IMAGES + 1].page = 4

\* ---- mask_cell_value, pass by pass --------------------------------------
\* value.text is str(value), value.stage the number of re.sub passes done
\* (the URL pass, one pass per keyword, the email pass, the digit pass), ret
\* the variable text of lines 163-180
NKeywords == Len(KEYWORDS_TO_MASK)

InitPasses ==
    /\ NoPipeline
    /\ fn = "mask_cell_value passes"
    /\ \E t \in MaskTexts : value = [text |-> t, stage |-> 0] /\ ret = t
    /\ file_name = <<>>
    /\ df = <<>>
    /\ called = FALSE

InPasses == fn = "mask_cell_value passes" /\ ~called

\* lines 164-165
ReturnsEmpty(text) == text = <<>> \/ IsNanText(text)

PassNan ==
    /\ InPasses
    /\ value.stage = 0
    /\ ReturnsEmpty(value.text)
    /\ ret' = <<>>
    /\ called' = TRUE
    /\ UNCHANGED <<fn, value, file_name, df>>
    /\ UNCHANGED pipeline_vars

\* line 171
PassUrl ==
    /\ InPasses
    /\ value.stage = 0
    /\ ~ReturnsEmpty(value.text)
    /\ ret' = SubUrl(ret, 1)
    /\ value' = [value EXCEPT !.stage = 1]
    /\ UNCHANGED <<fn, file_name, df, called>>
    /\ UNCHANGED pipeline_vars

\* lines 173-175, one keyword
PassKeyword ==
    /\ InPasses
    /\ value.stage \in 1..NKeywords
    /\ ret' = SubKeyword(ret, KEYWORDS_TO_MASK[value.stage], 1)
    /\ value' = [value EXCEPT !.stage = @ + 1]
    /\ UNCHANGED <<fn, file_name, df, called>>
    /\ UNCHANGED pipeline_vars

\* line 178
PassEmail ==
    /\ InPasses
    /\ value.stage = NKeywords + 1
    /\ ret' = SubEmail(ret, 1)
    /\ value' = [value EXCEPT !.stage = @ + 1]
    /\ UNCHANGED <<fn, file_name, df, called>>
    /\ UNCHANGED pipeline_vars

\* lines 180 and 182: the digit pass and the return
PassDigits ==
    /\ InPasses
    /\ value.stage = NKeywords + 2
    /\ ret' = SubDigits(ret, 1)
    /\ value' = [value EXCEPT !.stage = @ + 1]
    /\ called' = TRUE
    /\ UNCHANGED <<fn, file_name, df>>
    /\ UNCHANGED pipeline_vars

NextPasses == PassNan \/ PassUrl \/ PassKeyword \/ PassEmail \/ PassDigits

SpecPasses == InitPasses /\ [][NextPasses]_vars

\* the passes, run one after the other, give what mask_cell_value gives
PassesAgree ==
    (fn = "mask_cell_value passes" /\ called) => ret = mask_cell_value(value.text)

\* C25: for a text that is not empty and not 'nan', after every pass the
\* text has the input's length and holds at each position '*' or the input's
\* character, and a position that holds '*' holds '*' after the next pass too.
C25_MasksOnlyGrow ==
    /\ []((fn = "mask_cell_value passes" /\ ~ReturnsEmpty(value.text)) =>
            /\ Len(ret) = Len(value.text)
            /\ \A i \in 1..Len(ret) : ret[i] \in {"*", value.text[i]})
    /\ [][((fn = "mask_cell_value passes" /\ ~ReturnsEmpty(value.text)) =>
            /\ Len(ret') = Len(ret)
            /\ \A i \in 1..Len(ret) : ret[i] = "*" => ret'[i] = "*")]_vars

\* a keyword pass masked the first word and the digit pass, later, half of
\* the number
C25_Witness ==
    /\ fn = "mask_cell_value passes" /\ called
    /\ value.text = <<"t", "h", "u", "e", " ", "4", "7">>
    /\ ret = <<"*", "*", "*", "*", " ", "*", "7">>

\* C26: the source file is moved or deleted only by the quarantine action,
\* on the step that ends the run as quarantined; after a read error, empty
\* content, acceptance or a rendering failure it is where it was.
C26_SourceOnlyQuarantined ==
    /\ [](result \in {"read_error", "empty", "accepted", "render_failed"}
             => CurFile \in excel_dir)
    /\ [][(excel_dir' # excel_dir =>
             /\ pc = "decide"
             /\ SecurityCheckFailed(total_leaks)
             /\ result' = "quarantined"
             /\ excel_dir' = excel_dir \ {CurFile})]_vars

\* the first file was quarantined and moved away, the second one failed to
\* render and is still in place
C26_Witness ==
    /\ variant = "move"
    /\ idx = 2
    /\ result = "render_failed"
    /\ excel_dir = Files \ {1}
    /\ 1 \in data_check

\* ---- two runs of process_excel_file sharing one output directory ---------
\* Two server processes, each handling its own source file (run r handles the
\* file named r), are given the same output_dir, so both use the directory
\* output_dir/temp_html.  html_dir holds the page files of both; the page
\* files of a run carry its file_name, so their paths differ.
MaxRunPages == 2     \* pages generated for the source file of one run

Runs == {1, 2}

\* the pages a run's source file produces (the first m hold matches)
RunContents ==
    UNION {{[i \in 1..n |-> IF i <= m THEN MaxPageLeaks ELSE 0] : m \in 0..n}
           : n \in 1..MaxRunPages}

RECURSIVE SumPages(_)
SumPages(sheets) ==
    IF sheets = <<>> THEN 0 ELSE Head(sheets) + SumPages(Tail(sheets))

\* the locals of run r
Local(r) == runs.of[r]

\* run r's locals become rec, the directory temp_html exists or not
SetRun(r, rec, exists) ==
    runs' = [temp_html |-> exists, of |-> [runs.of EXCEPT ![r] = rec]]

InitRuns ==
    /\ variant = "server"
    /\ pc = "main"
    /\ idx = 1
    /\ all_sheets = <<>>
    /\ all_html_files = <<>>
    /\ total_leaks = 0
    /\ should_retry = FALSE
    /\ unreadable = {}
    /\ html_dir = {}
    /\ images = {}
    /\ excel_dir = Files
    /\ data_check = {}
    /\ result = "none"
    /\ k = 0
    /\ passes = 0
    /\ audits = 0
    /\ first_unreadable = {}
    /\ same_reads = FALSE
    /\ same_total = FALSE
    /\ fn = "process_excel_file"
    /\ value = <<>>
    /\ file_name = <<>>
    /\ df = <<>>
    /\ ret = <<>>
    /\ called = FALSE
    /\ \E c1 \in RunContents, c2 \in RunContents :
          runs = [temp_html |-> FALSE,
                  of |-> [r \in Runs |->
                            [pc |-> "start",
                             all_sheets |-> IF r = 1 THEN c1 ELSE c2,
                             at |-> 0,
                             total_leaks |-> 0,
                             passes |-> 0,
                             result |-> "none",
                             missed |-> FALSE]]]

RunFrame ==
    UNCHANGED <<variant, pc, idx, all_sheets, all_html_files, total_leaks,
                should_retry, unreadable, images, excel_dir, data_check,
                result, k, passes, audits, first_unreadable, same_reads,
                same_total, fn, value, file_name, df, ret, called>>

\* os.makedirs(html_dir, exist_ok=True); the source is read and preprocessed
RunMakedirs(r) ==
    /\ Local(r).pc = "start"
    /\ SetRun(r, [Local(r) EXCEPT !.pc = "generate", !.passes = 1], TRUE)
    /\ UNCHANGED html_dir
    /\ RunFrame

\* generate_html_for_sheet writes the next page file; open(path, 'w') raises
\* when temp_html is gone, and nothing around generate_all_htmls catches it
RunWrite(r) ==
    LET l == Local(r)
        n == Len(l.all_sheets)
    IN  /\ l.pc = "generate"
        /\ IF runs.temp_html
           THEN /\ html_dir' = WriteHtml(html_dir, r, l.at + 1, l.passes,
                                         l.all_sheets[l.at + 1])
                /\ SetRun(r, IF l.at + 1 = n
                             THEN [l EXCEPT !.pc = "audit", !.at = 0,
                                            !.total_leaks = 0]
                             ELSE [l EXCEPT !.at = l.at + 1], TRUE)
           ELSE /\ html_dir' = html_dir
                /\ SetRun(r, [l EXCEPT !.pc = "crashed"], FALSE)
        /\ RunFrame

\* one turn of the audit loop: check_html_leakage_count on the next path of
\* the run's own list; after the last page the first pass decides on a retry
RunAudit(r) ==
    LET l == Local(r)
        n == Len(l.all_sheets)
        p == l.at + 1
        found == Exists(html_dir, r, p)
        total == l.total_leaks
                   + check_html_leakage_count(found, Content(html_dir, r, p))
    IN  /\ l.pc = "audit"
        /\ SetRun(r, [l EXCEPT
                        !.total_leaks = total,
                        !.missed = l.missed \/ ~found,
                        !.at = IF p = n THEN 0 ELSE p,
                        !.pc = IF p < n THEN "audit"
                               ELSE IF l.passes = 1 /\ ShouldRetry(total)
                                    THEN "retry" ELSE "decide"],
                  runs.temp_html)
        /\ UNCHANGED html_dir
        /\ RunFrame

\* if should_retry: cleanup_htmls(all_html_files), then the second pass
RunRetry(r) ==
    LET l == Local(r)
    IN  /\ l.pc = "retry"
        /\ html_dir' = cleanup_htmls(html_dir, r, PageList(Len(l.all_sheets)))
        /\ SetRun(r, [l EXCEPT !.pc = "generate", !.passes = 2, !.at = 0],
                  runs.temp_html)
        /\ RunFrame

\* if total_leaks > MAX_LEAK_TOLERANCE: cleanup and the failure result
RunDecide(r) ==
    LET l == Local(r)
    IN  /\ l.pc = "decide"
        /\ IF SecurityCheckFailed(l.total_leaks)
           THEN /\ html_dir' = cleanup_htmls(html_dir, r,
                                             PageList(Len(l.all_sheets)))
                /\ SetRun(r, [l EXCEPT !.pc = "returned",
                                       !.result = "quarantined"],
                          runs.temp_html)
           ELSE /\ html_dir' = html_dir
                /\ SetRun(r, [l EXCEPT !.pc = "render", !.at = 0],
                          runs.temp_html)
        /\ RunFrame

\* create_images_from_list loads the next page file; page.goto raises when
\* the file is gone, and the except branch cleans up and reports the failure
RunRender(r) ==
    LET l == Local(r)
        n == Len(l.all_sheets)
        p == l.at + 1
    IN  /\ l.pc = "render"
        /\ IF Exists(html_dir, r, p)
           THEN /\ html_dir' = html_dir
                /\ SetRun(r, IF p = n THEN [l EXCEPT !.pc = "rendered"]
                             ELSE [l EXCEPT !.at = p], runs.temp_html)
           ELSE /\ html_dir' = cleanup_htmls(html_dir, r, PageList(n))
                /\ SetRun(r, [l EXCEPT !.pc = "returned",
                                       !.result = "render_failed",
                                       !.missed = TRUE],
                          runs.temp_html)
        /\ RunFrame

\* cleanup_htmls(all_html_files), then shutil.rmtree(html_dir): the whole of
\* temp_html goes, whatever it holds
RunRmtree(r) ==
    LET l == Local(r)
    IN  /\ l.pc = "rendered"
        /\ html_dir' = {}
        /\ SetRun(r, [l EXCEPT !.pc = "returned", !.result = "accepted"],
                  FALSE)
        /\ RunFrame

NextRuns ==
    \/ \E r \in Runs : RunMakedirs(r)
    \/ \E r \in Runs : RunWrite(r)
    \/ \E r \in Runs : RunAudit(r)
    \/ \E r \in Runs : RunRetry(r)
    \/ \E r \in Runs : RunDecide(r)
    \/ \E r \in Runs : RunRender(r)
    \/ \E r \in Runs : RunRmtree(r)

SpecRuns == InitRuns /\ [][NextRuns]_vars

\* how run r ended, an uncaught exception included
Outcome(r) ==
    IF Local(r).pc = "crashed" THEN "crashed" ELSE Local(r).result

\* the result of the run of a source with these pages when nothing else
\* touches its files
AloneOutcome(sheets) ==
    IF SecurityCheckFailed(SumPages(sheets)) THEN "quarantined"
    ELSE "accepted"

\* C27: two runs for different source files given the same output directory
\* do not disturb each other: no page file of a run is gone when the run
\* audits or renders it, and each run ends as it would have ended alone.
C27_RunsIndependent ==
    \A r \in Runs :
        /\ ~Local(r).missed
        /\ Outcome(r) # "none" => Outcome(r) = AloneOutcome(Local(r).all_sheets)

\* ---- missing cells in get_column_widths ---------------------------------
\* every cell of source column c of the page is missing
AllMissing(page, c) == \A n \in 1..Len(page) : page[n].cells[c] = NaN

\* some cell of source column c of the page holds non-empty text
HoldsText(page, c) ==
    \E n \in 1..Len(page) :
        /\ page[n].cells[c] # NaN
        /\ Strip(page[n].cells[c]) # <<>>

\* C28: a missing cell counts as the empty string in get_column_widths: a
\* column of missing cells has mean trimmed length 0, and it is never given
\* the wide width while a column that holds non-empty text gets the other.
C28_MissingCountsAsEmpty ==
    (fn = "get_column_widths" /\ called) =>
        \A c \in 1..Len(df[1].cells) :
            AllMissing(df, c) =>
                /\ avg_lengths(df)[c] = 0
                /\ \A d \in 1..Len(df[1].cells) :
                      HoldsText(df, d) =>
                          ~(/\ ret[c + 1] = TOP_3_COL_WIDTH
                            /\ ret[d + 1] = OTHER_COL_WIDTH)

\* ---- the masker's output under the auditor's number pattern -------------
\* C29: every maximal digit run left in mask_cell_value's output is right
\* after a '*', so the auditor's number pattern matches nowhere in the
\* output, whatever the file's name.
C29_DigitsBehindMask ==
    (fn = "mask_cell_value" /\ called) =>
        /\ \A i \in DigitRuns(ret) : i > 1 /\ ret[i - 1] = "*"
        /\ \A i \in 1..Len(ret) : NumberMatchEnd(ret, i) = 0
        /\ \A name \in AuditNames : NumberLeaks(ret, name) = 0

\* a run of 15 digits: 7 of them are left, a run as long as the auditor
\* looks for, behind 8 asterisks
C29_Witness ==
    /\ Masked
    /\ value = <<"1", "2", "3", "4", "5", "1", "2", "3", "4", "5",
                 "1", "2", "3", "4", "5">>
    /\ ret = Stars(8) \o <<"4", "5", "1", "2", "3", "4", "5">>
    /\ RunEnd(ret, 9, Digits) - 9 >= MIN_LEAK_DIGITS

\* ---- markup files at the end of a run -----------------------------------
\* the results process_excel_file returns
ReturnedResults ==
    {"read_error", "empty", "accepted", "render_failed", "quarantined"}

\* C30: when process_excel_file has returned a result, by whichever path, no
\* page markup file the run generated, in the first pass or in the retry
\* pass, exists any more.
C30_NoMarkupAfterReturn ==
    (pc = "returned" /\ result \in ReturnedResults) =>
        HtmlOf(html_dir, CurFile) = {}

\* a run that regenerated its pages, passed the gate and rendered them all
C30_Witness ==
    /\ variant = "server"
    /\ pc = "returned"
    /\ result = "accepted"
    /\ passes = 2
    /\ k = MaxPages
    /\ html_dir = {}

====
